---- MODULE Spec2Model ----
(***************************************************************************)
(* Kernel communication layer of tenant-data-browser                      *)
(* (src/src/components/kernelCommunication.tsx).                           *)
(*                                                                         *)
(* Part 1 - the shared session: getOrCreateSharedSession, its inner async  *)
(* initialisation, the statusChanged observer that reconnects a dead       *)
(* kernel, and the useSessionContext hook.                                 *)
(* Part 2 - one execution: waitForKernelReady and queryKernel.             *)
(*                                                                         *)
(* JavaScript is single threaded: every action below is one run-to-        *)
(* completion piece of code (a call up to its first await, or the          *)
(* continuation of an await / a timer / a signal slot).  What the          *)
(* environment decides (does the catalog hold python3, does changeKernel   *)
(* resolve or reject, which message arrives) is chosen with \E.            *)
(***************************************************************************)
EXTENDS Naturals, Sequences, FiniteSets

\* ---- bounds of the model ------------------------------------------------
MaxCallers == 2
MaxAttempts == 2
MaxReconn == 2
MaxQueries == 2
MaxText == 5
MaxName == 2
MaxPrefix == 1
MaxDbs == 2

\* ---- program constants --------------------------------------------------
KERNEL_START_TIMEOUT_MS == 60000
KERNEL_EXEC_TIMEOUT_MS == 30000

Callers == 1..MaxCallers
Attempts == 1..MaxAttempts
Queries == 1..MaxQueries

\* Kernel.Status values the code tells apart: 'idle' is ready, 'dead' and
\* 'unknown' are bad, every other status (here 'starting', 'busy') waits.
Statuses == {"unknown", "starting", "idle", "busy", "dead"}
readyStatuses == {"idle"}
badStatuses == {"dead", "unknown"}

VARIABLES
  sharedSessionContext,  \* 0 (undefined) or the attempt whose SessionContext it is
  sharedSessionPromise,  \* 0 (undefined) or the attempt whose promise it is
  sharedSessionError,    \* "none" (undefined) or "reconnect_failed"
  attempts,              \* the inner async function of each initialisation
  nAttempts,             \* initialisations started so far
  callers,               \* calls of getOrCreateSharedSession / hook instances
  nCallers,              \* callers that have appeared so far
  reconns,               \* reconnection attempts of the observer, in start order
  nDeaths,               \* deaths of its session's kernel the observer was notified of
  kernelStatus,          \* status of the kernel queryKernel resolved ("none": no kernel)
  queries,               \* calls of queryKernel
  nQueries,              \* queryKernel calls issued so far
  parseCall,             \* a call of parseKernelOutputJSON: its argument and result
  fetchCall              \* a call of fetchFilteredDatabases: its inputs and result

sessVars == <<sharedSessionContext, sharedSessionPromise, sharedSessionError,
              attempts, nAttempts, callers, nCallers, reconns, nDeaths>>

qVars == <<kernelStatus, queries, nQueries>>
pureVars == <<parseCall, fetchCall>>
vars == <<sessVars, qVars, pureVars>>

\* ---- values ---------------------------------------------------------------
\* The settled value of a getOrCreateSharedSession call: the SessionContext of
\* attempt att, or the Error object thrown by attempt att (kind = its message).
NoRes == [tag |-> "none", att |-> 0, kind |-> "none"]
OkRes(a) == [tag |-> "ok", att |-> a, kind |-> "none"]
ErrRes(a, k) == [tag |-> "err", att |-> a, kind |-> k]

\* Messages of the errors an initialisation can end with.
InitErrors == {"specs_rejected", "kernel_not_found", "init_rejected",
               "change_rejected", "start_timeout"}

\* One run of the inner async function: where it stands (pc), the error it
\* threw, how many SessionContexts it constructed and changeKernel requests it
\* made, its changeKernel promise and startup timer, whether the statusChanged
\* observer is connected to its session, and the status of its session's kernel.
\* deadSeen notes, for the properties, that the observer has been notified of
\* the death of the session's current kernel.
NewAttempt == [pc |-> "none", err |-> "none", nCtx |-> 0, nChange |-> 0,
               kreq |-> "none", timer |-> "none", observer |-> FALSE,
               kstatus |-> "none", deadSeen |-> FALSE]

\* One caller of getOrCreateSharedSession: a plain call, or a hook instance
\* with its React state (sc, error, isConnecting) and its `disposed` flag.
\* on: the attempt whose promise the call awaits (0: none); creator: the call
\* started that attempt; res: the value the call settled with.
NewCaller == [kind |-> "new", ph |-> "new", on |-> 0, creator |-> FALSE,
              res |-> NoRes, disposed |-> FALSE,
              sc |-> 0, error |-> "none", isConnecting |-> FALSE,
              errAtCall |-> "nocall"]

SessInit ==
  /\ sharedSessionContext = 0
  /\ sharedSessionPromise = 0
  /\ sharedSessionError = "none"
  /\ attempts = [a \in Attempts |-> NewAttempt]
  /\ nAttempts = 0
  /\ callers = [c \in Callers |-> NewCaller]
  /\ nCallers = 0
  /\ reconns = <<>>
  /\ nDeaths = 0

IsSettled(rec) == rec.pc \in {"ok", "err"}
InFlight(a) == attempts[a].pc \in {"specs", "init", "race"}

\* The value of an attempt's promise once settled.
Outcome(a, rec) == IF rec.pc = "ok" THEN OkRes(a) ELSE ErrRes(a, rec.err)

\* ---- getOrCreateSharedSession ----------------------------------------------

\* initSession without its `disposed` tests: an unmounted hook is updated too.
AfterAcquire_IgnoresDisposed(rec, res) ==
  IF rec.kind = "hook"
  THEN [rec EXCEPT !.ph = "settled", !.res = res,
                   !.sc = IF res.tag = "ok" THEN res.att ELSE @,
                   !.error = IF res.tag = "ok" THEN "none" ELSE res.kind,
                   !.isConnecting = FALSE]
  ELSE [rec EXCEPT !.ph = "settled", !.res = res]

\* useSessionContext, initSession after the await (lines 170-188): a hook that
\* was not unmounted stores the session or the error message and stops
\* connecting; a plain caller just holds the settled value.
AfterAcquire(rec, res) ==
  IF rec.kind = "hook" /\ ~rec.disposed
  THEN [rec EXCEPT !.ph = "settled", !.res = res,
                   !.sc = IF res.tag = "ok" THEN res.att ELSE @,
                   !.error = IF res.tag = "ok" THEN "none" ELSE res.kind,
                   !.isConnecting = FALSE]
  ELSE [rec EXCEPT !.ph = "settled", !.res = res]

\* getOrCreateSharedSession without lines 72-74: a call made while an
\* initialisation is in flight starts another one.
GetOrCreate_NoPromiseCheck(c, rec) ==
  IF sharedSessionContext # 0
  THEN /\ callers' = [callers EXCEPT ![c] = AfterAcquire(rec, OkRes(sharedSessionContext))]
       /\ UNCHANGED <<sharedSessionPromise, attempts, nAttempts>>
  ELSE /\ nAttempts < MaxAttempts
       /\ nAttempts' = nAttempts + 1
       /\ sharedSessionPromise' = nAttempts + 1
       /\ attempts' = [attempts EXCEPT ![nAttempts + 1].pc = "specs"]
       /\ callers' = [callers EXCEPT ![c] =
             [rec EXCEPT !.ph = "awaiting", !.on = nAttempts + 1, !.creator = TRUE]]

\* getOrCreateSharedSession that treats a session whose reconnection failed
\* as unusable and initialises again.
GetOrCreate_RetryWhenFailed(c, rec) ==
  IF sharedSessionContext # 0 /\ sharedSessionError = "none"
  THEN /\ callers' = [callers EXCEPT ![c] = AfterAcquire(rec, OkRes(sharedSessionContext))]
       /\ UNCHANGED <<sharedSessionPromise, attempts, nAttempts>>
  ELSE IF sharedSessionPromise # 0 /\ sharedSessionContext = 0
  THEN /\ callers' = [callers EXCEPT ![c] =
             [rec EXCEPT !.ph = "awaiting", !.on = sharedSessionPromise]]
       /\ UNCHANGED <<sharedSessionPromise, attempts, nAttempts>>
  ELSE /\ nAttempts < MaxAttempts
       /\ nAttempts' = nAttempts + 1
       /\ sharedSessionPromise' = nAttempts + 1
       /\ attempts' = [attempts EXCEPT ![nAttempts + 1].pc = "specs"]
       /\ callers' = [callers EXCEPT ![c] =
             [rec EXCEPT !.ph = "awaiting", !.on = nAttempts + 1, !.creator = TRUE]]

\* getOrCreateSharedSession up to its first await (lines 63-141), called by
\* caller c, whose record is rec at the call.
GetOrCreate(c, rec) ==
  IF sharedSessionContext # 0
  THEN \* lines 67-69: already initialised, return it
       /\ callers' = [callers EXCEPT ![c] = AfterAcquire(rec, OkRes(sharedSessionContext))]
       /\ UNCHANGED <<sharedSessionPromise, attempts, nAttempts>>
  ELSE IF sharedSessionPromise # 0
  THEN \* lines 72-74: initialisation in progress, return its promise
       /\ callers' = [callers EXCEPT ![c] =
             [rec EXCEPT !.ph = "awaiting", !.on = sharedSessionPromise]]
       /\ UNCHANGED <<sharedSessionPromise, attempts, nAttempts>>
  ELSE \* lines 77-141: start the inner async function, which runs up to
       \* `await manager.kernelspecs.ready`, and await its promise
       /\ nAttempts < MaxAttempts
       /\ nAttempts' = nAttempts + 1
       /\ sharedSessionPromise' = nAttempts + 1
       /\ attempts' = [attempts EXCEPT ![nAttempts + 1].pc = "specs"]
       /\ callers' = [callers EXCEPT ![c] =
             [rec EXCEPT !.ph = "awaiting", !.on = nAttempts + 1, !.creator = TRUE]]

\* The caller's record as it calls: errAtCall notes, for the properties, the
\* value of sharedSessionError at the call.
Calling(rec, kind) == [rec EXCEPT !.kind = kind, !.errAtCall = sharedSessionError]

\* A call of getOrCreateSharedSession by a caller that is not a hook.
Acquire(c) ==
  /\ c = nCallers + 1
  /\ callers[c].kind = "new"
  /\ nCallers' = c
  /\ GetOrCreate(c, Calling(callers[c], "plain"))
  /\ UNCHANGED <<sharedSessionContext, sharedSessionError, reconns, nDeaths, qVars, pureVars>>

\* The creator's await without the catch of lines 142-146.
PromiseAfter_NotCleared(a, rec) == sharedSessionPromise

\* Lines 140-146, the creator's await: on a rejection its catch clears
\* sharedSessionPromise; the other callers returned the promise itself.
PromiseAfter(a, rec) ==
  IF rec.pc = "err" /\ (\E c \in Callers :
        callers[c].ph = "awaiting" /\ callers[c].on = a /\ callers[c].creator)
  THEN 0 ELSE sharedSessionPromise

\* The callers once the promise of attempt a has settled as rec says: every
\* caller awaiting it continues with its value.
CallersAfter(a, rec) ==
  [c \in Callers |->
     IF callers[c].ph = "awaiting" /\ callers[c].on = a
     THEN AfterAcquire(callers[c], Outcome(a, rec)) ELSE callers[c]]

\* The inner function of attempt a takes one step, to rec.  If that step
\* settles its promise, the continuations of the awaiting callers run in the
\* same microtask drain, before any timer, network event or React effect.
Step(a, rec) ==
  /\ attempts' = [attempts EXCEPT ![a] = rec]
  /\ sharedSessionContext' =
       IF rec.pc = "ok" /\ attempts[a].pc # "ok" THEN a ELSE sharedSessionContext
  /\ IF IsSettled(rec) /\ ~IsSettled(attempts[a])
     THEN /\ callers' = CallersAfter(a, rec)
          /\ sharedSessionPromise' = PromiseAfter(a, rec)
     ELSE UNCHANGED <<callers, sharedSessionPromise>>
  /\ UNCHANGED <<sharedSessionError, nAttempts, nCallers, reconns, nDeaths, qVars, pureVars>>

\* ---- the inner async function (lines 77-138) ---------------------------------

\* Lines 120-137: connect the statusChanged observer, publish the session,
\* resolve the promise.
Publish(rec) == [rec EXCEPT !.observer = TRUE, !.pc = "ok"]

\* The inner function constructing the SessionContext before the python3
\* check.
AfterSpecs_CreatesFirst(rec, found) ==
  IF found
  THEN [rec EXCEPT !.pc = "init", !.nCtx = @ + 1]
  ELSE [rec EXCEPT !.pc = "err", !.err = "kernel_not_found", !.nCtx = @ + 1]

\* Lines 82-98 after `await manager.kernelspecs.ready`: the python3 check, then
\* new SessionContext and initialize().
AfterSpecs(rec, found) ==
  IF found
  THEN [rec EXCEPT !.pc = "init", !.nCtx = @ + 1]
  ELSE [rec EXCEPT !.pc = "err", !.err = "kernel_not_found"]

\* `await manager.kernelspecs.ready` resolved; the catalog holds python3 or not.
SpecsReady(a, found) ==
  /\ attempts[a].pc = "specs"
  /\ Step(a, AfterSpecs(attempts[a], found))

\* `await manager.kernelspecs.ready` rejected.
SpecsRejected(a) ==
  /\ attempts[a].pc = "specs"
  /\ Step(a, [attempts[a] EXCEPT !.pc = "err", !.err = "specs_rejected"])

\* The observer connected before the race instead of after it.
StartKernel_ObservesFirst(rec) ==
  [rec EXCEPT !.pc = "race", !.kreq = "pending", !.nChange = @ + 1,
              !.timer = "pending", !.observer = TRUE]

\* Lines 100-117: changeKernel requested, the startup timer set, both raced.
StartKernel(rec) ==
  [rec EXCEPT !.pc = "race", !.kreq = "pending", !.nChange = @ + 1,
              !.timer = "pending"]

\* initialize() resolved true.
InitNeedsKernel(a) ==
  /\ attempts[a].pc = "init"
  /\ Step(a, StartKernel(attempts[a]))

\* initialize() resolved false (the session has its kernel, of status s):
\* lines 120-137.
InitHasKernel(a, s) ==
  /\ attempts[a].pc = "init"
  /\ Step(a, Publish([attempts[a] EXCEPT !.kstatus = s]))

\* initialize() rejected.
InitRejected(a) ==
  /\ attempts[a].pc = "init"
  /\ Step(a, [attempts[a] EXCEPT !.pc = "err", !.err = "init_rejected"])

\* The inner function going on to lines 120-137 whenever kernelPromise
\* resolves, whether or not the timer already won the race.
AfterKernelStarted_IgnoresRace(rec) == Publish(rec)

\* What the inner function does when kernelPromise resolves: if the race is
\* still open it goes on to lines 120-137, otherwise nothing awaits it.
AfterKernelStarted(rec) == IF rec.pc = "race" THEN Publish(rec) ELSE rec

\* changeKernel of the initialisation resolved: the session has a kernel of
\* status s.
KernelStarted(a, s) ==
  /\ attempts[a].kreq = "pending"
  /\ Step(a, AfterKernelStarted([attempts[a] EXCEPT !.kreq = "resolved", !.kstatus = s]))

\* What the inner function does when kernelPromise rejects.
AfterKernelRejected(rec) ==
  IF rec.pc = "race" THEN [rec EXCEPT !.pc = "err", !.err = "change_rejected"] ELSE rec

\* changeKernel of the initialisation rejected.
KernelRejected(a) ==
  /\ attempts[a].kreq = "pending"
  /\ Step(a, AfterKernelRejected([attempts[a] EXCEPT !.kreq = "rejected"]))

\* Lines 106-117 when the timer rejects: if the race is still open the inner
\* function throws the timeout error.
AfterTimer(rec) ==
  IF rec.pc = "race" THEN [rec EXCEPT !.pc = "err", !.err = "start_timeout"] ELSE rec

\* The startup timer fires (it is never cleared).
StartTimeout(a) ==
  /\ attempts[a].timer = "pending"
  /\ Step(a, AfterTimer([attempts[a] EXCEPT !.timer = "fired"]))

\* ---- the statusChanged observer (lines 121-134) ------------------------------

\* What the observer does when it runs and reads status s: on 'dead' it calls
\* changeKernel and awaits it (one more pending reconnection), else nothing.
\* pre notes, for the properties, that the kernel was dead before the observer
\* was connected (it has not been notified of this death before).
Observer(a, s, rs) ==
  IF s = "dead"
  THEN Append(rs, [sess |-> a, st |-> "pending",
                   pre |-> attempts[a].kstatus = "dead" /\ ~attempts[a].deadSeen])
  ELSE rs

\* sessionContext.statusChanged is emitted for the session of attempt a, whose
\* kernel now has status s (s may equal the status it had: the signal carries
\* no promise that the status is new).  Slots run synchronously.
StatusChanged(a, s) ==
  /\ attempts[a].kstatus # "none"
  /\ (attempts[a].observer /\ s = "dead") => Len(reconns) < MaxReconn
  /\ attempts' = [attempts EXCEPT ![a] =
       [@ EXCEPT !.kstatus = s, !.deadSeen = @ \/ (attempts[a].observer /\ s = "dead")]]
  /\ reconns' = IF attempts[a].observer THEN Observer(a, s, reconns) ELSE reconns
  /\ nDeaths' = IF attempts[a].observer /\ s = "dead" /\ ~attempts[a].deadSeen
                THEN nDeaths + 1 ELSE nDeaths
  /\ UNCHANGED <<sharedSessionContext, sharedSessionPromise, sharedSessionError,
                 nAttempts, callers, nCallers, qVars, pureVars>>

\* The observer without line 127: a successful reconnection leaves the error.
ReconnectError_NeverCleared(ok) == IF ok THEN sharedSessionError ELSE "reconnect_failed"

\* Lines 126-131: the value sharedSessionError gets when the awaited
\* changeKernel of a reconnection resolves (ok) or rejects.
ReconnectError(ok) == IF ok THEN "none" ELSE "reconnect_failed"

\* A reconnection whose failure drops the shared session, so that the next
\* call initialises again.
ReconnectDone_ClearsSession(i, ok) ==
  /\ i \in 1..Len(reconns)
  /\ reconns[i].st = "pending"
  /\ reconns' = [reconns EXCEPT ![i].st = IF ok THEN "ok" ELSE "fail"]
  /\ sharedSessionError' = ReconnectError(ok)
  /\ sharedSessionContext' = IF ok THEN sharedSessionContext ELSE 0
  /\ sharedSessionPromise' = IF ok THEN sharedSessionPromise ELSE 0
  /\ attempts' = IF ok
                 THEN [attempts EXCEPT ![reconns[i].sess] =
                         [@ EXCEPT !.kstatus = "idle", !.deadSeen = FALSE]]
                 ELSE attempts
  /\ UNCHANGED <<nAttempts, callers, nCallers, nDeaths, qVars, pureVars>>

\* The changeKernel of reconnection i settles.  On success the session has a
\* fresh kernel.
ReconnectDone(i, ok) ==
  /\ i \in 1..Len(reconns)
  /\ reconns[i].st = "pending"
  /\ reconns' = [reconns EXCEPT ![i].st = IF ok THEN "ok" ELSE "fail"]
  /\ sharedSessionError' = ReconnectError(ok)
  /\ attempts' = IF ok
                 THEN [attempts EXCEPT ![reconns[i].sess] =
                         [@ EXCEPT !.kstatus = "idle", !.deadSeen = FALSE]]
                 ELSE attempts
  /\ UNCHANGED <<sharedSessionContext, sharedSessionPromise,
                 nAttempts, callers, nCallers, nDeaths, qVars, pureVars>>

\* ---- useSessionContext (lines 150-199) ---------------------------------------

\* First render of a hook instance: the useState initial values
\* (lines 151-155).
Render(h) ==
  /\ h = nCallers + 1
  /\ callers[h].kind = "new"
  /\ nCallers' = h
  /\ callers' = [callers EXCEPT ![h] =
       [@ EXCEPT !.kind = "hook", !.ph = "rendered",
                 !.sc = sharedSessionContext, !.error = sharedSessionError,
                 !.isConnecting = (sharedSessionContext = 0)]]
  /\ UNCHANGED <<sharedSessionContext, sharedSessionPromise, sharedSessionError,
                 attempts, nAttempts, reconns, nDeaths, qVars, pureVars>>

\* Lines 159-164: the effect found the shared session and uses it.
UseShared(rec) ==
  [rec EXCEPT !.ph = "settled", !.sc = sharedSessionContext,
              !.error = sharedSessionError, !.isConnecting = FALSE]

\* The effect of a hook instance (lines 157-191): use the shared session, or
\* call getOrCreateSharedSession.
Effect(h) ==
  /\ callers[h].kind = "hook"
  /\ callers[h].ph = "rendered"
  /\ IF sharedSessionContext # 0
     THEN /\ callers' = [callers EXCEPT ![h] = UseShared(@)]
          /\ UNCHANGED <<sharedSessionPromise, attempts, nAttempts>>
     ELSE GetOrCreate(h, Calling(callers[h], "hook"))
  /\ UNCHANGED <<sharedSessionContext, sharedSessionError, nCallers,
                 reconns, nDeaths, qVars, pureVars>>

\* The effect's cleanup (lines 193-195), for an instance unmounted while its
\* acquire call is pending.
Unmount(h) ==
  /\ callers[h].kind = "hook"
  /\ callers[h].ph = "awaiting"
  /\ ~callers[h].disposed
  /\ callers' = [callers EXCEPT ![h].disposed = TRUE]
  /\ UNCHANGED <<sharedSessionContext, sharedSessionPromise, sharedSessionError,
                 attempts, nAttempts, nCallers, reconns, nDeaths, qVars, pureVars>>

\* The observer tells 'dead' from every other status only: the session part
\* draws the status of a session's kernel from one live status and 'dead'.
SessionStatuses == {"idle", "dead"}

\* ---- waitForKernelReady and queryKernel (lines 201-321) ----------------------

\* IOPub message types: the three result-bearing ones, 'stream', 'error', and
\* 'status' standing for every type the switch sends to `default`.
MsgTypes == {"execute_result", "display_data", "update_display_data",
             "stream", "error", "status"}
ResultMsgs == {"execute_result", "display_data", "update_display_data"}

\* What queryKernel returns: {data: content of message `of`} or
\* {error: KernelError of type `of`}.
NoOut == [kind |-> "none", of |-> "none"]
Data(m) == [kind |-> "data", of |-> m]
KErr(t) == [kind |-> "error", of |-> t]

\* One call of queryKernel.  connected: onStatusChanged is in
\* kernel.statusChanged; waitTimer, execTimer: the two setTimeout timers;
\* waited: how the promise of waitForKernelReady settled; slot: the value the
\* `result` promise was resolved with; ret: what the call returned.
\* startStatus, first and late record, for the properties, the status read at
\* the call, the first terminal event after submission, and whether another
\* terminal event came after it.  execThrows is what kernel.requestExecute will
\* do when this call reaches line 263: return a future, or throw (the
\* connection cannot send: disposed, or dead by then).  streamed notes, while
\* the call awaits its result, that the handler got a non-terminal message
\* before any terminal event.
NewQuery == [pc |-> "new", connected |-> FALSE, waitTimer |-> "none",
             waited |-> "none", hasResolved |-> FALSE, slot |-> NoOut,
             ret |-> NoOut, execTimer |-> "none", future |-> "none",
             nDispose |-> 0, startStatus |-> "none", first |-> "none",
             late |-> FALSE, execThrows |-> FALSE, streamed |-> FALSE]

\* Lines 260-315: requestExecute, the onIOPub handler installed, the execution
\* timer set; queryKernel awaits the `result` promise.  Line 263 is in no
\* try block: when requestExecute throws, the promise of queryKernel rejects.
Submit(rec) ==
  IF rec.execThrows
  THEN [rec EXCEPT !.pc = "rejected"]
  ELSE [rec EXCEPT !.pc = "executing", !.future = "live", !.execTimer = "pending"]

\* queryKernel going on to line 263 whatever the readiness wait gave.
AfterWait_SubmitsAnyway(rec, w) == Submit([rec EXCEPT !.waited = w])

\* Lines 251-258: queryKernel's await of waitForKernelReady continues.  w is
\* "ready" or the type of the KernelError it rejected with.
AfterWait(rec, w) ==
  IF w = "ready"
  THEN Submit([rec EXCEPT !.waited = w])
  ELSE [rec EXCEPT !.waited = w, !.ret = KErr(w), !.pc = "returned"]

\* The KernelError type for a bad status with the test of line 214 left out.
BadStatusError_AlwaysNotReady(s) == "not_ready"

\* Line 214 / 231: the KernelError type for a bad status.
BadStatusError(s) == IF s = "dead" THEN "dead" ELSE "not_ready"

\* waitForKernelReady that sets its timer and connects onStatusChanged before
\* it looks at the status.
WaitForKernelReady_SubscribesFirst(rec, s) ==
  IF s \in readyStatuses
  THEN AfterWait([rec EXCEPT !.waitTimer = "pending", !.connected = TRUE], "ready")
  ELSE IF s \in badStatuses
  THEN AfterWait([rec EXCEPT !.waitTimer = "pending", !.connected = TRUE],
                 BadStatusError(s))
  ELSE [rec EXCEPT !.pc = "waiting", !.waitTimer = "pending", !.connected = TRUE]

\* waitForKernelReady as called (lines 202-237) with kernel.status = s.
WaitForKernelReady(rec, s) ==
  IF s \in readyStatuses THEN AfterWait(rec, "ready")
  ELSE IF s \in badStatuses THEN AfterWait(rec, BadStatusError(s))
  ELSE [rec EXCEPT !.pc = "waiting", !.waitTimer = "pending", !.connected = TRUE]

\* queryKernel as called (lines 241-258) on a session whose kernel has status
\* s ("none": the session has no kernel).
QueryKernel(rec, s) ==
  IF s = "none"
  THEN [rec EXCEPT !.ret = KErr("not_available"), !.pc = "returned"]
  ELSE WaitForKernelReady(rec, s)

QueryStart(q) ==
  /\ q = nQueries + 1
  /\ queries[q].pc = "new"
  /\ nQueries' = q
  /\ \E t \in BOOLEAN :
       queries' = [queries EXCEPT ![q] =
         QueryKernel([@ EXCEPT !.startStatus = kernelStatus, !.execThrows = t],
                     kernelStatus)]
  /\ UNCHANGED <<kernelStatus, sessVars, pureVars>>

\* clearTimeout(timeoutId).
ClearTimeout(t) == IF t = "pending" THEN "cleared" ELSE t

\* resolve() / reject() of the promise of waitForKernelReady (lines 217-237):
\* only the first call settles it, and queryKernel continues from it.
SettleWait(rec, w) == IF rec.waited = "none" THEN AfterWait(rec, w) ELSE rec

\* onStatusChanged (lines 222-234), run with kernel.status = s.
OnStatusChanged(rec, s) ==
  IF s \in readyStatuses
  THEN SettleWait([rec EXCEPT !.waitTimer = ClearTimeout(@), !.connected = FALSE],
                  "ready")
  ELSE IF s \in badStatuses
  THEN SettleWait([rec EXCEPT !.waitTimer = ClearTimeout(@), !.connected = FALSE],
                  BadStatusError(s))
  ELSE rec

\* kernel.statusChanged is emitted, the kernel now has status s: every
\* connected onStatusChanged slot runs.
KernelStatusChanged(s) ==
  /\ kernelStatus # "none"
  /\ kernelStatus' = s
  /\ queries' = [q \in Queries |->
       IF queries[q].connected THEN OnStatusChanged(queries[q], s) ELSE queries[q]]
  /\ UNCHANGED <<nQueries, sessVars, pureVars>>

\* Lines 218-220: the timer callback of waitForKernelReady.
OnWaitTimer(rec) == SettleWait([rec EXCEPT !.waitTimer = "fired"], "timeout")

\* A readiness timeout that also drops the shared session.
WaitTimeout_ClearsSession(q) ==
  /\ queries[q].waitTimer = "pending"
  /\ queries' = [queries EXCEPT ![q] = OnWaitTimer(@)]
  /\ sharedSessionContext' = 0
  /\ sharedSessionPromise' = 0
  /\ UNCHANGED <<sharedSessionError, attempts, nAttempts, callers, nCallers,
                 reconns, nDeaths, kernelStatus, nQueries, pureVars>>

WaitTimeout(q) ==
  /\ queries[q].waitTimer = "pending"
  /\ queries' = [queries EXCEPT ![q] = OnWaitTimer(@)]
  /\ UNCHANGED <<kernelStatus, nQueries, sessVars, pureVars>>

\* resolve(v) of the `result` promise: a promise keeps its first value.
Resolve(rec, v) ==
  IF rec.slot = NoOut THEN [rec EXCEPT !.slot = v, !.pc = "resolved"] ELSE rec

\* future.onIOPub with the `break` of the 'stream' case missing: a stream
\* message falls through into the 'error' case.
OnIOPub_StreamFallsThrough(rec, m) ==
  CASE m \in ResultMsgs ->
         IF ~rec.hasResolved
         THEN Resolve([rec EXCEPT !.hasResolved = TRUE], Data(m)) ELSE rec
    [] m \in {"stream", "error"} ->
         IF ~rec.hasResolved
         THEN Resolve([rec EXCEPT !.hasResolved = TRUE], KErr("execution_error"))
         ELSE rec
    [] OTHER -> rec

\* future.onIOPub whose `default` case resolves with the message.
OnIOPub_DefaultResolves(rec, m) ==
  CASE m = "stream" -> rec
    [] m = "error" ->
         IF ~rec.hasResolved
         THEN Resolve([rec EXCEPT !.hasResolved = TRUE], KErr("execution_error"))
         ELSE rec
    [] OTHER ->
         IF ~rec.hasResolved
         THEN Resolve([rec EXCEPT !.hasResolved = TRUE], Data(m)) ELSE rec

\* future.onIOPub (lines 269-308) for a message of type m.
OnIOPub(rec, m) ==
  CASE m \in ResultMsgs ->
         IF ~rec.hasResolved
         THEN Resolve([rec EXCEPT !.hasResolved = TRUE], Data(m)) ELSE rec
    [] m = "stream" -> rec
    [] m = "error" ->
         IF ~rec.hasResolved
         THEN Resolve([rec EXCEPT !.hasResolved = TRUE], KErr("execution_error"))
         ELSE rec
    [] OTHER -> rec

TerminalMsgs == ResultMsgs \cup {"error"}

\* Bookkeeping of the first terminal event ev for the properties.
Noted(rec, ev) ==
  IF rec.first = "none" THEN [rec EXCEPT !.first = ev] ELSE [rec EXCEPT !.late = TRUE]

\* Bookkeeping of a non-terminal message that came before any terminal event.
Streamed(rec) == IF rec.first = "none" THEN [rec EXCEPT !.streamed = TRUE] ELSE rec

\* An IOPub message handed to the handler of every live future, as if
\* messages were not routed by the request they answer.
IOPub_Broadcast(q, m) ==
  /\ queries[q].future = "live"
  /\ queries' = [r \in Queries |->
       IF queries[r].future = "live"
       THEN OnIOPub(IF m \in TerminalMsgs THEN Noted(queries[r], m)
                    ELSE Streamed(queries[r]), m)
       ELSE queries[r]]
  /\ UNCHANGED <<kernelStatus, nQueries, sessVars, pureVars>>

\* An IOPub message of type m arrives for the request of query q, whose
\* future is not disposed.
IOPub(q, m) ==
  /\ queries[q].future = "live"
  /\ queries' = [queries EXCEPT ![q] =
       OnIOPub(IF m \in TerminalMsgs THEN Noted(@, m) ELSE Streamed(@), m)]
  /\ UNCHANGED <<kernelStatus, nQueries, sessVars, pureVars>>

\* A timer callback that resolves nothing.
OnExecTimer_NeverResolves(rec) == rec

\* Lines 310-315: the callback of the execution timer.
OnExecTimer(rec) ==
  IF ~rec.hasResolved
  THEN Resolve([rec EXCEPT !.hasResolved = TRUE], KErr("timeout")) ELSE rec

\* The execution timer fires (it is never cleared).
ExecTimeout(q) ==
  /\ queries[q].execTimer = "pending"
  /\ queries' = [queries EXCEPT ![q] =
       OnExecTimer(Noted([@ EXCEPT !.execTimer = "fired"], "timer"))]
  /\ UNCHANGED <<kernelStatus, nQueries, sessVars, pureVars>>

\* Lines 319-320 without future.dispose().
AfterResult_NoDispose(rec) == [rec EXCEPT !.ret = rec.slot, !.pc = "returned"]

\* Lines 319-320: queryKernel's await of `result` continues.
AfterResult(rec) ==
  [rec EXCEPT !.future = "disposed", !.nDispose = @ + 1, !.ret = rec.slot,
              !.pc = "returned"]

Return(q) ==
  /\ queries[q].pc = "resolved"
  /\ queries' = [queries EXCEPT ![q] = [AfterResult(@) EXCEPT !.streamed = FALSE]]
  /\ UNCHANGED <<kernelStatus, nQueries, sessVars, pureVars>>

\* ---- parseKernelOutputJSON (lines 323-348) -----------------------------------

\* The characters of a 'text/plain' entry: the single quote the regular
\* expression of line 333 strips, and characters JSON values are written with.
Quote == "'"
Chars == {Quote, "1", "[", "]"}
Texts == UNION {[1..n -> Chars] : n \in 0..MaxText}

\* The `output` argument: undefined; an output with no data; data that is not
\* an object; a data object with no 'text/plain' entry; a 'text/plain' entry
\* that is not a string (a string[] or a number); a 'text/plain' string.
NoText == <<>>
OutputKinds == {"undefined", "nodata", "dataNotObject", "notext", "nonstring"}
TextOutput(t) == [kind |-> "text", text |-> t]
Outputs == {[kind |-> k, text |-> NoText] : k \in OutputKinds}
             \cup {TextOutput(t) : t \in Texts}

\* Values: undefined, the JSON values written with Chars (numbers and nested
\* arrays), and the exceptions a statement can throw.
Undefined == [t |-> "undefined", n |-> 0, items |-> <<>>]
Num(n) == [t |-> "number", n |-> n, items |-> <<>>]
Arr(items) == [t |-> "array", n |-> 0, items |-> items]
Thrown(e) == [t |-> e, n |-> 0, items |-> <<>>]
IsThrown(v) == v.t \in {"SyntaxError", "TypeError", "KernelError", "Error"}

\* The number a run of digits denotes.
RECURSIVE NumVal(_)
NumVal(t) ==
  IF t = <<>> THEN 0
  ELSE 10 * NumVal(SubSeq(t, 1, Len(t) - 1)) + (IF t[Len(t)] = "1" THEN 1 ELSE 0)

\* JSON.parse (line 334) on a text over Chars: a number, an empty array or an
\* array of one value (Chars has no comma); anything else is a SyntaxError.
RECURSIVE JSONParse(_)
JSONParse(t) ==
  IF t = <<>> THEN Thrown("SyntaxError")
  ELSE IF \A i \in 1..Len(t) : t[i] = "1" THEN Num(NumVal(t))
  ELSE IF Len(t) >= 2 /\ t[1] = "[" /\ t[Len(t)] = "]"
  THEN IF Len(t) = 2 THEN Arr(<<>>)
       ELSE LET inner == JSONParse(SubSeq(t, 2, Len(t) - 1))
            IN  IF IsThrown(inner) THEN inner ELSE Arr(<<inner>>)
  ELSE Thrown("SyntaxError")

\* The two alternatives of /^'|'$/g: a quote at the start of the text, then a
\* quote at the end of what is left to scan.
StripLeading(t) == IF t # <<>> /\ t[1] = Quote THEN Tail(t) ELSE t
StripTrailing(t) ==
  IF t # <<>> /\ t[Len(t)] = Quote THEN SubSeq(t, 1, Len(t) - 1) ELSE t

RECURSIVE StripAllLeading(_)
StripAllLeading(t) ==
  IF t # <<>> /\ t[1] = Quote THEN StripAllLeading(Tail(t)) ELSE t

RECURSIVE StripAllTrailing(_)
StripAllTrailing(t) ==
  IF t # <<>> /\ t[Len(t)] = Quote
  THEN StripAllTrailing(SubSeq(t, 1, Len(t) - 1)) ELSE t

\* The replace with /^'+|'+$/g: every leading and trailing quote goes.
CleanedText_StripsEveryQuote(rawText) == StripAllTrailing(StripAllLeading(rawText))

\* Line 333: rawText.replace(/^'|'$/g, '').
CleanedText(rawText) == StripTrailing(StripLeading(rawText))

\* Lines 326-330: output?.data is an object that has a 'text/plain' entry.
HasTextPlain(output) == output.kind \in {"nonstring", "text"}

\* Lines 332-334, the body of the try block: rawText.replace is not a function
\* when the entry is not a string.
TryBody(output) ==
  IF output.kind = "nonstring" THEN Thrown("TypeError")
  ELSE JSONParse(CleanedText(output.text))

\* parseKernelOutputJSON with no try/catch around lines 332-334.
ParseKernelOutputJSON_NoCatch(output) ==
  IF HasTextPlain(output) THEN TryBody(output) ELSE Undefined

\* parseKernelOutputJSON (lines 323-348).
ParseKernelOutputJSON(output) ==
  IF HasTextPlain(output)
  THEN LET r == TryBody(output) IN IF IsThrown(r) THEN Undefined ELSE r
  ELSE Undefined

NoParse == [output |-> [kind |-> "undefined", text |-> NoText],
            ret |-> Undefined, done |-> FALSE]

\* parseKernelOutputJSON is called with parseCall.output and returns.
Parse ==
  /\ ~parseCall.done
  /\ parseCall' = [parseCall EXCEPT !.ret = ParseKernelOutputJSON(parseCall.output),
                                    !.done = TRUE]
  /\ UNCHANGED <<sessVars, qVars, fetchCall>>

\* ---- fetchFilteredDatabases (unnamed/part_002, lines 23-53) ---------------------

\* Database names and prefixes are strings over NameChars.
NameChars == {"a", "b"}
StringsTo(n) == UNION {[1..k -> NameChars] : k \in 0..n}
Names == StringsTo(MaxName)
DbLists == UNION {[1..k -> Names] : k \in 0..MaxDbs}

\* A field that is undefined (absent) or null is a tagged value; a string is
\* [tag |-> "string", s |-> ...].
Absent == [tag |-> "undefined", s |-> <<>>]
Null == [tag |-> "null", s |-> <<>>]
Str(x) == [tag |-> "string", s |-> x]
PrefixValues == {Absent, Null} \cup {Str(x) : x \in StringsTo(MaxPrefix)}

\* The `tenant` argument: undefined, or a string (the empty string included).
Tenants == {Absent, Str(<<>>), Str(<<"a">>)}

\* What parseKernelOutputJSON returned for the data of the execution:
\* undefined, or an object whose `databases` and `prefix` may be missing.
NoPrefix == [present |-> FALSE, user_namespace_prefix |-> Absent,
             tenant_namespace_prefix |-> Absent]
PrefixRecords ==
  {NoPrefix} \cup
  {[present |-> TRUE, user_namespace_prefix |-> u, tenant_namespace_prefix |-> t] :
     u \in PrefixValues, t \in PrefixValues}
NoResponse == [defined |-> FALSE, hasDatabases |-> FALSE, databases |-> <<>>,
               prefix |-> NoPrefix]
Responses ==
  {NoResponse} \cup
  {[defined |-> TRUE, hasDatabases |-> FALSE, databases |-> <<>>, prefix |-> p] :
     p \in PrefixRecords} \cup
  {[defined |-> TRUE, hasDatabases |-> TRUE, databases |-> d, prefix |-> p] :
     d \in DbLists, p \in PrefixRecords}

\* What queryKernel gave (line 29): {data}, {error: KernelError of a type}, or
\* its promise rejected.
QueryOutcomes == {"data", "not_available", "not_ready", "dead", "timeout",
                  "execution_error", "rejected"}

\* What fetchFilteredDatabases gives: a list, or a rejection with an error.
Returned(list) == [kind |-> "list", list |-> list, err |-> "none"]
Raised(e) == [kind |-> "throw", list |-> <<>>, err |-> e]

\* db.startsWith(prefix).
StartsWith(db, prefix) ==
  Len(prefix) <= Len(db) /\ SubSeq(db, 1, Len(prefix)) = prefix

\* A JavaScript value used as a condition: undefined, null and '' are falsy.
Truthy(v) == v.tag = "string" /\ v.s # <<>>

\* The prefix picked with `tenant ? ... : ...` read the other way round: a
\* tenant that is not truthy takes the user's prefix.
SelectedPrefix_ByTruthiness(tenant, prefix) ==
  IF ~Truthy(tenant) THEN prefix.user_namespace_prefix
  ELSE prefix.tenant_namespace_prefix

\* Lines 47-50.
SelectedPrefix(tenant, prefix) ==
  IF tenant = Absent THEN prefix.user_namespace_prefix
  ELSE prefix.tenant_namespace_prefix

\* Line 52.
FilterByPrefix(databases, p) ==
  IF Truthy(p)
  THEN Returned(SelectSeq(databases, LAMBDA db : StartsWith(db, p.s)))
  ELSE Returned(<<>>)

\* Lines 43-52, shared with part_001 (lines 13-22): reading a property of a
\* missing `prefix` is a TypeError.
FilterResponse(tenant, response) ==
  IF ~response.defined \/ ~response.hasDatabases THEN Returned(<<>>)
  ELSE IF ~response.prefix.present THEN Raised("TypeError")
  ELSE FilterByPrefix(response.databases, SelectedPrefix(tenant, response.prefix))

\* fetchFilteredDatabases raising a new Error for an error of queryKernel.
FetchFilteredDatabases_WrapsError(tenant, outcome, response) ==
  IF outcome # "data" THEN Raised("Error") ELSE FilterResponse(tenant, response)

\* fetchFilteredDatabases (lines 23-53) given what queryKernel and
\* parseKernelOutputJSON gave.
FetchFilteredDatabases(tenant, outcome, response) ==
  IF outcome = "rejected" THEN Raised("Error")
  ELSE IF outcome # "data" THEN Raised(outcome)
  ELSE FilterResponse(tenant, response)

\* nQueryKernel counts the calls of queryKernel the call made; parsed tells
\* whether it called parseKernelOutputJSON.
NoFetch == [tenant |-> Absent, outcome |-> "data", response |-> NoResponse,
            ret |-> Returned(<<>>), done |-> FALSE, nQueryKernel |-> 0,
            parsed |-> FALSE]

\* fetchFilteredDatabases is called and settles: it awaits queryKernel once
\* (line 29, one code string for databases and prefix) and reaches the parser
\* (line 38) only past the throw of lines 34-36.
Fetch ==
  /\ ~fetchCall.done
  /\ fetchCall' = [fetchCall EXCEPT
       !.ret = FetchFilteredDatabases(fetchCall.tenant, fetchCall.outcome,
                                      fetchCall.response),
       !.nQueryKernel = @ + 1,
       !.parsed = (fetchCall.outcome = "data"),
       !.done = TRUE]
  /\ UNCHANGED <<sessVars, qVars, parseCall>>

\* ---- specifications -----------------------------------------------------------

QIdleInit ==
  /\ kernelStatus = "none"
  /\ queries = [q \in Queries |-> NewQuery]
  /\ nQueries = 0

PureIdleInit ==
  /\ parseCall = NoParse
  /\ fetchCall = NoFetch

Init == SessInit /\ QIdleInit /\ PureIdleInit

Next ==
  \/ \E c \in Callers : Acquire(c)
  \/ \E h \in Callers : Render(h)
  \/ \E h \in Callers : Effect(h)
  \/ \E h \in Callers : Unmount(h)
  \/ \E a \in Attempts : \E found \in BOOLEAN : SpecsReady(a, found)
  \/ \E a \in Attempts : SpecsRejected(a)
  \/ \E a \in Attempts : InitNeedsKernel(a)
  \/ \E a \in Attempts : \E s \in SessionStatuses : InitHasKernel(a, s)
  \/ \E a \in Attempts : InitRejected(a)
  \/ \E a \in Attempts : KernelStarted(a, "idle")
  \/ \E a \in Attempts : KernelRejected(a)
  \/ \E a \in Attempts : StartTimeout(a)
  \/ \E a \in Attempts : \E s \in SessionStatuses : StatusChanged(a, s)
  \/ \E i \in 1..MaxReconn : \E ok \in BOOLEAN : ReconnectDone(i, ok)

\* The shared session: acquisition, initialisation, death and reconnection.
Spec == Init /\ [][Next]_vars

\* A state Spec reaches: one hook acquired the session through attempt 1,
\* whose changeKernel resolved.
Established ==
  /\ sharedSessionContext = 1
  /\ sharedSessionPromise = 1
  /\ sharedSessionError = "none"
  /\ attempts = [a \in Attempts |->
       IF a = 1 THEN [pc |-> "ok", err |-> "none", nCtx |-> 1, nChange |-> 1,
                      kreq |-> "resolved", timer |-> "pending", observer |-> TRUE,
                      kstatus |-> "idle", deadSeen |-> FALSE]
       ELSE NewAttempt]
  /\ nAttempts = 1
  /\ callers = [c \in Callers |->
       IF c = 1 THEN [kind |-> "hook", ph |-> "settled", on |-> 1, creator |-> TRUE,
                      res |-> OkRes(1), disposed |-> FALSE,
                      sc |-> 1, error |-> "none", isConnecting |-> FALSE,
                      errAtCall |-> "none"]
       ELSE NewCaller]
  /\ nCallers = 1
  /\ reconns = <<>>
  /\ nDeaths = 0

QInit ==
  /\ Established
  /\ kernelStatus \in Statuses \cup {"none"}
  /\ queries = [q \in Queries |-> NewQuery]
  /\ nQueries = 0
  /\ PureIdleInit

QNext ==
  \/ \E q \in Queries : QueryStart(q)
  \/ \E s \in Statuses : KernelStatusChanged(s)
  \/ \E q \in Queries : WaitTimeout(q)
  \/ \E q \in Queries : \E m \in MsgTypes : IOPub(q, m)
  \/ \E q \in Queries : ExecTimeout(q)
  \/ \E q \in Queries : Return(q)

\* Executions on the established session.
SpecQuery == QInit /\ [][QNext]_vars

\* The same, where a timer that was set fires and a continuation that was
\* scheduled runs: the event loop runs every macrotask and microtask.
SpecQueryFair ==
  /\ SpecQuery
  /\ \A q \in Queries : WF_vars(ExecTimeout(q)) /\ WF_vars(Return(q))

\* Calls of parseKernelOutputJSON on every output of the bounded sets.
ParseInit ==
  /\ SessInit
  /\ QIdleInit
  /\ fetchCall = NoFetch
  /\ parseCall \in {[NoParse EXCEPT !.output = o] : o \in Outputs}

ParseNext == Parse

SpecParse == ParseInit /\ [][ParseNext]_vars

\* Calls of fetchFilteredDatabases on every input of the bounded sets.  The
\* response matters only when the execution gave data.
FetchInit ==
  /\ SessInit
  /\ QIdleInit
  /\ parseCall = NoParse
  /\ fetchCall \in {[NoFetch EXCEPT !.tenant = t, !.outcome = o, !.response = r] :
                      t \in Tenants, o \in QueryOutcomes, r \in Responses}
  /\ fetchCall.outcome # "data" => fetchCall.response = NoResponse

FetchNext == Fetch

SpecFetch == FetchInit /\ [][FetchNext]_vars

\* The consumers of the shared session together: executions on the
\* established session and, once they have ended (the parser is called on
\* what an execution returned), a call of the parser on a text that decodes
\* and a call of fetchFilteredDatabases whose execution timed out.
ConsumersInit ==
  /\ Established
  /\ kernelStatus \in {"none", "busy"}
  /\ queries = [q \in Queries |-> NewQuery]
  /\ nQueries = 0
  /\ parseCall = [NoParse EXCEPT !.output = TextOutput(<<Quote, "1", Quote>>)]
  /\ fetchCall = [NoFetch EXCEPT !.outcome = "timeout"]

ExecutionsEnded ==
  \A q \in Queries : queries[q].pc \in {"returned", "rejected"}

ConsumersNext ==
  \/ QNext
  \/ ExecutionsEnded /\ ParseNext
  \/ ExecutionsEnded /\ FetchNext

SpecConsumers == ConsumersInit /\ [][ConsumersNext]_vars

\* ---- properties -----------------------------------------------------------------

RECURSIVE SumChange(_)
SumChange(n) == IF n = 0 THEN 0 ELSE attempts[n].nChange + SumChange(n - 1)

\* changeKernel requests made by initialisations so far.
InitChangeKernels == SumChange(MaxAttempts)

SameOutcome(a) ==
  \A c \in Callers : callers[c].on = a =>
     IF IsSettled(attempts[a])
     THEN callers[c].ph = "settled" /\ callers[c].res = Outcome(a, attempts[a])
     ELSE callers[c].ph = "awaiting" /\ callers[c].res = NoRes

\* C1 (as amended): at most one initialisation is in flight at any time, so
\* the calls made while it is in flight all await it; it constructs at most
\* one SessionContext (exactly one if it succeeds, none if it fails before
\* line 92) and requests at most one changeKernel; and all its calls settle
\* with its one outcome, the same session or the same error.
C1_IdempotentAcquisition ==
  /\ Cardinality({a \in Attempts : InFlight(a)}) <= 1
  /\ \A a \in Attempts :
       /\ attempts[a].nCtx <= 1
       /\ attempts[a].nChange <= 1
       /\ attempts[a].pc = "ok" => attempts[a].nCtx = 1
       /\ SameOutcome(a)

\* C1 witness: two calls awaited the same initialisation, which requested its
\* kernel, and both settled with its session.
C1_Witness ==
  \E c1, c2 \in Callers :
     /\ c1 # c2
     /\ callers[c1].on = 1 /\ callers[c2].on = 1
     /\ callers[c1].res = OkRes(1) /\ callers[c2].res = OkRes(1)
     /\ attempts[1].nChange = 1

\* C1 as stated: once the initialisation the calls await has settled, exactly
\* one SessionContext was created.
C1_ExactlyOneSessionContext ==
  /\ Cardinality({a \in Attempts : InFlight(a)}) <= 1
  /\ \A a \in Attempts :
       /\ IsSettled(attempts[a]) => attempts[a].nCtx = 1
       /\ attempts[a].nChange <= 1
       /\ SameOutcome(a)

\* The outcome the first terminal event stands for.
OutcomeOfFirst(ev) ==
  IF ev = "timer" THEN KErr("timeout")
  ELSE IF ev = "error" THEN KErr("execution_error")
  ELSE Data(ev)

\* C2: a submitted request is resolved by its first terminal event (a result
\* message, an error message or the execution timer) and by nothing else: the
\* value of the `result` promise is the outcome of that event in every later
\* state, whatever messages or timer expiry follow, and it is what the call
\* returns.
C2_AtMostOneResolution ==
  \A q \in Queries :
     /\ queries[q].slot =
          IF queries[q].first = "none" THEN NoOut ELSE OutcomeOfFirst(queries[q].first)
     /\ queries[q].hasResolved <=> queries[q].first # "none"
     /\ queries[q].future = "disposed" =>
          queries[q].ret = queries[q].slot /\ queries[q].ret # NoOut
     /\ queries[q].nDispose <= 1

\* C2 witness: a call returned the data of its first result message although
\* another terminal event (an error message, the timer) came after it.
C2_Witness ==
  \E q \in Queries :
     /\ queries[q].late
     /\ queries[q].pc = "returned"
     /\ queries[q].ret = Data("execute_result")

\* C3 as stated: the observer has started exactly one reconnection per
\* transition of the observed kernel to 'dead'.
C3_OneReconnectPerDeath == Len(reconns) = nDeaths

ReconnSettles(i, st) ==
  /\ i <= Len(reconns)
  /\ reconns[i].st = "pending"
  /\ reconns'[i].st = st

\* C4: a reconnection that succeeds clears sharedSessionError and one that
\* fails sets it; a set error is cleared only by a reconnection succeeding;
\* the settling of a reconnection changes no caller and no query, and no call
\* ever settles with the reconnection error; a hook whose effect finds the
\* shared session takes sharedSessionError as its error.
C4_ReconnectErrorRecord ==
  [][ /\ \A i \in 1..MaxReconn :
           /\ ReconnSettles(i, "ok") => sharedSessionError' = "none"
           /\ ReconnSettles(i, "fail") => sharedSessionError' = "reconnect_failed"
           /\ (ReconnSettles(i, "ok") \/ ReconnSettles(i, "fail")) =>
                 callers' = callers /\ queries' = queries
      /\ (sharedSessionError = "reconnect_failed" /\ sharedSessionError' = "none") =>
           \E i \in 1..MaxReconn : ReconnSettles(i, "ok")
      /\ \A c \in Callers :
           /\ callers'[c].res.kind # "reconnect_failed"
           /\ (callers[c].ph = "rendered" /\ callers'[c].ph = "settled") =>
                 callers'[c].error = sharedSessionError
    ]_vars

\* C4 witness: a hook mounted after a reconnection failed found the shared
\* session and shows the recorded error.
C4_Witness ==
  \E h \in Callers :
     /\ callers[h].kind = "hook"
     /\ callers[h].ph = "settled"
     /\ callers[h].errAtCall = "nocall"
     /\ callers[h].sc = sharedSessionContext
     /\ callers[h].error = "reconnect_failed"

C6_InitFailurePolicy ==
  \A a \in Attempts : attempts[a].pc = "err" =>
     /\ attempts[a].err \in InitErrors
     /\ sharedSessionPromise # a
     /\ sharedSessionContext # a
     /\ \A c \in Callers : callers[c].on = a =>
          callers[c].ph = "settled" /\ callers[c].res = ErrRes(a, attempts[a].err)

\* C6 witness: the first initialisation failed, its caller got the error, and
\* a later call started a fresh initialisation.
C6_Witness ==
  /\ attempts[1].pc = "err"
  /\ callers[1].res = ErrRes(1, attempts[1].err)
  /\ callers[2].on = 2
  /\ callers[2].creator

\* C7 as stated: initialisations request at most one connection over the
\* life of the process.
C7_AtMostOneInitConnection == InitChangeKernels <= 1

\* C8: while the race is open both changeKernel and the timer are pending;
\* an initialisation whose timer won has failed with the timeout error, which
\* all its callers got, and its session is never the shared session nor
\* observed, also after its changeKernel completes; an initialisation that
\* requested a kernel and succeeded did so because changeKernel resolved.
C8_StartupTimeoutRace ==
  \A a \in Attempts :
     /\ attempts[a].pc = "race" =>
          attempts[a].kreq = "pending" /\ attempts[a].timer = "pending"
     /\ attempts[a].err = "start_timeout" =>
          /\ attempts[a].pc = "err"
          /\ attempts[a].timer = "fired"
          /\ sharedSessionContext # a
          /\ ~attempts[a].observer
          /\ \A c \in Callers : callers[c].on = a =>
               callers[c].res = ErrRes(a, "start_timeout")
     /\ (attempts[a].pc = "ok" /\ attempts[a].nChange = 1) =>
          attempts[a].kreq = "resolved"
     /\ attempts[a].err = "change_rejected" => attempts[a].kreq = "rejected"

\* C8 witness: the timer won, and the abandoned changeKernel completed later.
C8_Witness ==
  \E a \in Attempts :
     /\ attempts[a].err = "start_timeout"
     /\ attempts[a].kreq = "resolved"
     /\ attempts[a].kstatus # "none"

\* C9 as stated: once waitForKernelReady has settled, its onStatusChanged
\* handler is no longer connected.
C9_HandlerDisconnected ==
  \A q \in Queries : queries[q].waited # "none" => ~queries[q].connected

\* C10: a call that found the kernel 'idle' went straight on to submit: it
\* never set the readiness timer and never connected onStatusChanged.
C10_ReadyShortCircuit ==
  \A q \in Queries : queries[q].startStatus = "idle" =>
     /\ queries[q].waited = "ready"
     /\ queries[q].waitTimer = "none"
     /\ ~queries[q].connected
     /\ queries[q].future # "none" \/ queries[q].pc = "rejected"

\* C10 witness: a call found the kernel 'idle' and has submitted its request.
C10_Witness ==
  \E q \in Queries :
     /\ queries[q].startStatus = "idle"
     /\ queries[q].pc = "executing"

\* C11: a call that found the kernel 'dead' or 'unknown' failed at once with
\* the error of that status ('dead' for dead, 'not_ready' for unknown): it
\* set no readiness timer, connected no observer and submitted nothing.
C11_BadStatusFailFast ==
  \A q \in Queries : queries[q].startStatus \in badStatuses =>
     LET kind == IF queries[q].startStatus = "dead" THEN "dead" ELSE "not_ready"
     IN  /\ queries[q].waited = kind
         /\ queries[q].ret = KErr(kind)
         /\ queries[q].pc = "returned"
         /\ queries[q].waitTimer = "none"
         /\ ~queries[q].connected
         /\ queries[q].future = "none"

\* C11 witness: one call found the kernel 'dead', another found it 'unknown'.
C11_Witness ==
  \E q, r \in Queries :
     /\ queries[q].startStatus = "dead" /\ queries[q].ret = KErr("dead")
     /\ queries[r].startStatus = "unknown" /\ queries[r].ret = KErr("not_ready")

\* C12: every submitted execution eventually returns with its future
\* disposed, and when its first terminal event is the execution timer (no
\* terminal message came before) it returns the 'timeout' error; once the
\* future is disposed, no message of the request is handled any more.
C12_TimeoutIsolation ==
  \A q \in Queries :
     /\ [](queries[q].pc = "executing" =>
            <>(/\ queries[q].pc = "returned"
               /\ queries[q].future = "disposed"
               /\ queries[q].first = "timer" => queries[q].ret = KErr("timeout")))
     /\ [](queries[q].future = "disposed" =>
            /\ \A m \in MsgTypes : ~ENABLED IOPub(q, m)
            /\ queries[q].ret = queries[q].slot)

\* C12 witness: an execution with no terminal message returned 'timeout' and
\* its future is disposed.
C12_Witness ==
  \E q \in Queries :
     /\ queries[q].first = "timer"
     /\ ~queries[q].late
     /\ queries[q].pc = "returned"
     /\ queries[q].ret = KErr("timeout")
     /\ queries[q].future = "disposed"

\* C13: for a call that submitted its request, future.dispose() has been
\* called once if the call has returned and not at all before; it is called
\* after the outcome is determined, and the call returns that outcome.
C13_DisposedExactlyOnce ==
  \A q \in Queries : queries[q].future # "none" =>
     /\ queries[q].pc \in {"executing", "resolved", "returned"}
     /\ queries[q].nDispose = IF queries[q].pc = "returned" THEN 1 ELSE 0
     /\ queries[q].future = "disposed" <=> queries[q].pc = "returned"
     /\ queries[q].pc = "returned" =>
          /\ queries[q].slot # NoOut
          /\ queries[q].ret = queries[q].slot
          /\ queries[q].ret.kind = "data" \/
               queries[q].ret.of \in {"execution_error", "timeout"}

\* C13 witness: one call returned a result and another an execution_error,
\* each with its future disposed once.
C13_Witness ==
  \E q, r \in Queries :
     /\ queries[q].ret.kind = "data" /\ queries[q].nDispose = 1
     /\ queries[r].ret = KErr("execution_error") /\ queries[r].nDispose = 1

\* C14 as stated: no call of queryKernel ends with its promise rejected.
C14_NeverRejects == \A q \in Queries : queries[q].pc # "rejected"

\* C15 as stated: wherever a call is suspended, a timer is pending that will
\* end the suspension.
C15_EverySuspensionTimed ==
  /\ \A a \in Attempts : InFlight(a) => attempts[a].timer = "pending"
  /\ \A q \in Queries :
       /\ queries[q].pc = "waiting" => queries[q].waitTimer = "pending"
       /\ queries[q].pc = "executing" => queries[q].execTimer = "pending"

\* C16: a step that changes anything of a submitted request (its resolved
\* flag, its outcome, its timer, its future) changes no other call.
C16_IndependentExecutions ==
  [][\A q \in Queries :
       (queries[q].future # "none" /\ queries'[q] # queries[q]) =>
          \A r \in Queries \ {q} : queries'[r] = queries[r]]_vars

\* C16 witness: of two calls in flight together, one returned the data of its
\* result message and the other the timeout of its own timer.
C16_Witness ==
  \E q, r \in Queries :
     /\ queries[q].ret = Data("display_data") /\ ~queries[q].late
     /\ queries[r].ret = KErr("timeout") /\ ~queries[r].late

\* db starts with the characters of p.
HasPrefix(db, p) == \A k \in 1..Len(p) : k <= Len(db) /\ db[k] = p[k]

\* out is the subsequence of dbs of the names that start with p, in order.
IsPrefixSubsequence(out, dbs, p) ==
  LET M == {i \in 1..Len(dbs) : HasPrefix(dbs[i], p)}
  IN  /\ Len(out) = Cardinality(M)
      /\ \E f \in [1..Len(out) -> M] :
            /\ \A i, j \in 1..Len(out) : i < j => f[i] < f[j]
            /\ \A i \in 1..Len(out) : out[i] = dbs[f[i]]

\* C17: given a parsed result with `databases` and `prefix`, the call returns
\* the names of `databases` that start with the selected prefix, all of them
\* and in their order, the selected prefix being the user's when tenant is
\* undefined and the tenant's otherwise; it returns the empty list when that
\* prefix is null, undefined or empty.
C17_PrefixFiltering ==
  (/\ fetchCall.done
   /\ fetchCall.outcome = "data"
   /\ fetchCall.response.hasDatabases
   /\ fetchCall.response.prefix.present) =>
     LET p == IF fetchCall.tenant.tag = "undefined"
              THEN fetchCall.response.prefix.user_namespace_prefix
              ELSE fetchCall.response.prefix.tenant_namespace_prefix
     IN  /\ fetchCall.ret.kind = "list"
         /\ IF p.tag = "string" /\ p.s # <<>>
            THEN IsPrefixSubsequence(fetchCall.ret.list, fetchCall.response.databases, p.s)
            ELSE fetchCall.ret.list = <<>>

\* C17 witness: called with the empty string as tenant, the call kept the
\* second of two databases, the one with the tenant's prefix.
C17_Witness ==
  /\ fetchCall.done
  /\ fetchCall.tenant = Str(<<>>)
  /\ fetchCall.response.prefix.tenant_namespace_prefix = Str(<<"b">>)
  /\ fetchCall.response.prefix.user_namespace_prefix = Str(<<"a">>)
  /\ fetchCall.response.databases = << <<"a", "b">>, <<"b", "a">> >>
  /\ fetchCall.ret = Returned(<< <<"b", "a">> >>)

\* C18 as stated: when the execution gave data but the parsed result is
\* undefined, has no `databases`, or has no `prefix`, the call returns the
\* empty list.
C18_MalformedIsEmpty ==
  (/\ fetchCall.done
   /\ fetchCall.outcome = "data"
   /\ \/ ~fetchCall.response.defined
      \/ ~fetchCall.response.hasDatabases
      \/ ~fetchCall.response.prefix.present) =>
     fetchCall.ret = Returned(<<>>)

\* C19: parseKernelOutputJSON returns and never throws: undefined when the
\* output has no 'text/plain' string or the text does not decode, else the
\* decoded value.
C19_ParserNeverThrows ==
  parseCall.done =>
     /\ ~IsThrown(parseCall.ret)
     /\ IF parseCall.output.kind # "text" THEN parseCall.ret = Undefined
        ELSE LET v == JSONParse(CleanedText(parseCall.output.text))
             IN  parseCall.ret = IF IsThrown(v) THEN Undefined ELSE v

\* C19 witness: a 'text/plain' entry that is not a string gave undefined.
C19_Witness ==
  /\ parseCall.done
  /\ parseCall.output.kind = "nonstring"
  /\ parseCall.ret = Undefined

\* t is u in one pair of quotes.
IsWrapped(t) == Len(t) >= 2 /\ t[1] = Quote /\ t[Len(t)] = Quote
Inner(t) == SubSeq(t, 2, Len(t) - 1)
IsBare(t) == t = <<>> \/ (t[1] # Quote /\ t[Len(t)] # Quote)

\* C20: the text decoded is the text without one pair of quotes, never
\* without a second: a text in one pair of quotes gives what the bare text
\* gives, and a text in two pairs keeps the inner pair (and so does not
\* decode).
C20_OneQuoteLayer ==
  (parseCall.done /\ parseCall.output.kind = "text") =>
     LET t == parseCall.output.text
     IN  /\ IsWrapped(t) => CleanedText(t) = Inner(t)
         /\ IsBare(t) => CleanedText(t) = t
         /\ (IsWrapped(t) /\ IsBare(Inner(t))) =>
              parseCall.ret = ParseKernelOutputJSON(TextOutput(Inner(t)))
         /\ (IsWrapped(t) /\ IsWrapped(Inner(t))) => parseCall.ret = Undefined

\* C20 witness: the text 1 in two pairs of quotes did not decode.
C20_Witness ==
  /\ parseCall.done
  /\ parseCall.output = TextOutput(<<Quote, Quote, "1", Quote, Quote>>)
  /\ parseCall.ret = Undefined

\* C21: a request that has had 'stream' or other non-terminal messages and
\* no terminal event is unresolved: its resolved flag is unset, nothing was
\* resolved or returned, its future is live and its timer pending, so a
\* terminal message or the timeout can still resolve it; and the resolved flag
\* is set only with a terminal event.
C21_StreamIsNonTerminal ==
  \A q \in Queries :
     /\ (queries[q].streamed /\ queries[q].first = "none") =>
          /\ ~queries[q].hasResolved
          /\ queries[q].slot = NoOut
          /\ queries[q].ret = NoOut
          /\ queries[q].pc = "executing"
          /\ queries[q].future = "live"
          /\ queries[q].nDispose = 0
          /\ queries[q].execTimer = "pending"
          /\ ENABLED IOPub(q, "execute_result")
          /\ ENABLED ExecTimeout(q)
     /\ queries[q].hasResolved => queries[q].first # "none"

\* C21 witness: a request that first had a non-terminal message was resolved
\* with the data of the result message that came after it.
C21_Witness ==
  \E q \in Queries :
     /\ queries[q].streamed
     /\ queries[q].first = "execute_result"
     /\ queries[q].slot = Data("execute_result")

\* C22: a request was submitted (a future, an execution timer) only by a call
\* that found a kernel and whose readiness wait succeeded; a call on a session
\* with no kernel returned 'not_available' without waiting; a call whose wait
\* failed returned the error of the wait; neither submitted anything.
C22_SubmitAfterReady ==
  \A q \in Queries :
     /\ (\/ queries[q].future # "none"
         \/ queries[q].execTimer # "none"
         \/ queries[q].pc \in {"executing", "resolved", "rejected"}) =>
          queries[q].startStatus # "none" /\ queries[q].waited = "ready"
     /\ (queries[q].pc # "new" /\ queries[q].startStatus = "none") =>
          /\ queries[q].ret = KErr("not_available")
          /\ queries[q].pc = "returned"
          /\ queries[q].waited = "none"
          /\ queries[q].waitTimer = "none"
          /\ ~queries[q].connected
          /\ queries[q].future = "none"
          /\ queries[q].execTimer = "none"
     /\ queries[q].waited \notin {"none", "ready"} =>
          /\ queries[q].waited \in {"dead", "not_ready", "timeout"}
          /\ queries[q].ret = KErr(queries[q].waited)
          /\ queries[q].pc = "returned"
          /\ queries[q].future = "none"
          /\ queries[q].execTimer = "none"

\* C22 witness: a call whose readiness wait timed out returned 'timeout' and
\* submitted nothing.
C22_Witness ==
  \E q \in Queries :
     /\ queries[q].waitTimer = "fired"
     /\ queries[q].ret = KErr("timeout")
     /\ queries[q].future = "none"

\* C24: no step of waitForKernelReady, queryKernel, parseKernelOutputJSON or
\* fetchFilteredDatabases changes sharedSessionContext, sharedSessionPromise
\* or sharedSessionError.
C24_SessionStateFrame ==
  [][UNCHANGED <<sharedSessionContext, sharedSessionPromise, sharedSessionError>>]_vars

\* C24 witness: executions ended with a result and with a timeout, the parser
\* and fetchFilteredDatabases have run, and the shared session is as it was.
C24_Witness ==
  /\ \E q, r \in Queries :
        queries[q].ret.kind = "data" /\ queries[r].ret = KErr("timeout")
  /\ parseCall.done
  /\ fetchCall.done
  /\ sharedSessionContext = 1
  /\ sharedSessionPromise = 1
  /\ sharedSessionError = "none"

\* C25: a call of fetchFilteredDatabases awaits queryKernel once; when
\* queryKernel returned an error it raises that error, without calling the
\* parser and without returning a list.
C25_ErrorReraised ==
  fetchCall.done =>
     /\ fetchCall.nQueryKernel = 1
     /\ fetchCall.outcome \in {"not_available", "not_ready", "dead", "timeout",
                               "execution_error"} =>
          /\ fetchCall.ret = Raised(fetchCall.outcome)
          /\ ~fetchCall.parsed
     /\ fetchCall.parsed <=> fetchCall.outcome = "data"

\* C25 witness: queryKernel returned the 'dead' error and the call raised it.
C25_Witness ==
  /\ fetchCall.done
  /\ fetchCall.outcome = "dead"
  /\ fetchCall.ret = Raised("dead")

\* C23: an initialisation constructs its SessionContext only on leaving the
\* wait for the catalog with python3 present, requests a kernel only on
\* leaving initialize() with one needed, and connects the observer only on
\* completing; an attempt that found no python3 kernelspec fails with the
\* 'not found' error having constructed no SessionContext, requested no
\* kernel and connected no observer.
C23_InitStepOrder ==
  [][\A a \in Attempts :
       /\ attempts'[a].nCtx # attempts[a].nCtx =>
            /\ attempts[a].pc = "specs" /\ attempts'[a].pc = "init"
            /\ attempts[a].nCtx = 0 /\ attempts'[a].nCtx = 1
       /\ attempts'[a].nChange # attempts[a].nChange =>
            /\ attempts[a].pc = "init" /\ attempts'[a].pc = "race"
            /\ attempts[a].nCtx = 1
            /\ attempts[a].nChange = 0 /\ attempts'[a].nChange = 1
       /\ (attempts'[a].observer /\ ~attempts[a].observer) =>
            /\ attempts[a].pc \in {"init", "race"} /\ attempts'[a].pc = "ok"
            /\ attempts[a].nCtx = 1
       /\ attempts'[a].err = "kernel_not_found" =>
            /\ attempts'[a].pc = "err"
            /\ attempts'[a].nCtx = 0
            /\ attempts'[a].nChange = 0
            /\ ~attempts'[a].observer
            /\ attempts'[a].kstatus = "none"
            /\ sharedSessionContext' # a]_vars

\* C23 witness: an attempt found no python3 kernelspec, and a later attempt
\* went through every step.
C23_Witness ==
  \E a, b \in Attempts :
     /\ attempts[a].err = "kernel_not_found"
     /\ attempts[b].pc = "ok"
     /\ attempts[b].nChange = 1

\* C26: once sharedSessionContext is set, no step changes it, starts an
\* initialisation, constructs a SessionContext or requests a kernel in one,
\* and every call that settles settles with the shared session.
C26_SingletonStable ==
  [][sharedSessionContext # 0 =>
       /\ sharedSessionContext' = sharedSessionContext
       /\ nAttempts' = nAttempts
       /\ \A a \in Attempts :
            /\ attempts'[a].nCtx = attempts[a].nCtx
            /\ attempts'[a].nChange = attempts[a].nChange
       /\ \A c \in Callers :
            (callers[c].ph # "settled" /\ callers'[c].ph = "settled") =>
               IF callers'[c].on = 0 /\ callers'[c].kind = "hook"
               THEN callers'[c].sc = sharedSessionContext
               ELSE callers'[c].res = OkRes(sharedSessionContext)]_vars

\* C26 witness: after the kernel of the shared session died and was
\* reconnected, a plain call got the session of the one initialisation made.
C26_Witness ==
  /\ sharedSessionContext = 1
  /\ nAttempts = 1
  /\ \E i \in 1..Len(reconns) : reconns[i].st = "ok"
  /\ callers[2].kind = "plain"
  /\ callers[2].res = OkRes(1)

\* C27: a session has the observer exactly when it is the shared session,
\* which completed its initialisation; every reconnection is on the shared
\* session.
C27_ObserverTiedToPublication ==
  /\ \A a \in Attempts :
       /\ attempts[a].observer <=> sharedSessionContext = a
       /\ attempts[a].observer =>
            /\ attempts[a].pc = "ok"
            /\ attempts[a].nChange = 1 => attempts[a].kreq = "resolved"
  /\ \A i \in 1..Len(reconns) :
       /\ reconns[i].sess = sharedSessionContext
       /\ attempts[reconns[i].sess].pc = "ok"

\* C27 witness: the kernel of a timed-out attempt started late and died; no
\* reconnection was made for it, while another attempt is the shared session.
C27_Witness ==
  \E a, b \in Attempts :
     /\ attempts[a].err = "start_timeout"
     /\ attempts[a].kstatus = "dead"
     /\ sharedSessionContext = b
     /\ \A i \in 1..Len(reconns) : reconns[i].sess = b

\* C27 as stated, its last part: no reconnection is made for a death that
\* happened before the initialisation completed.
C27_NoReconnectForEarlierDeath ==
  \A i \in 1..Len(reconns) : ~reconns[i].pre

\* C28 as stated: when no reconnection is pending, sharedSessionError is set
\* exactly when the reconnection started last failed.
C28_ErrorMatchesLatestStarted ==
  (\A i \in 1..Len(reconns) : reconns[i].st # "pending") =>
     IF reconns = <<>> THEN sharedSessionError = "none"
     ELSE sharedSessionError # "none" <=> reconns[Len(reconns)].st = "fail"

\* C29: a hook that called getOrCreateSharedSession and was not unmounted
\* has, once the call settled, isConnecting false and either the session or
\* the error, not both and not neither; a hook unmounted before the call
\* settled keeps the state it had (no session, no error, isConnecting true).
C29_HookLifecycle ==
  \A h \in Callers :
     (callers[h].kind = "hook" /\ callers[h].on # 0) =>
        /\ (callers[h].ph = "settled" /\ ~callers[h].disposed) =>
             /\ ~callers[h].isConnecting
             /\ (callers[h].sc # 0) # (callers[h].error # "none")
             /\ callers[h].sc # 0 <=> callers[h].res.tag = "ok"
        /\ callers[h].disposed =>
             /\ callers[h].sc = 0
             /\ callers[h].error = "none"
             /\ callers[h].isConnecting

\* C29 witness: of two hooks awaiting the same initialisation, which failed,
\* the mounted one has the error and the unmounted one was left as it was.
C29_Witness ==
  \E h, g \in Callers :
     /\ callers[h].kind = "hook" /\ callers[g].kind = "hook"
     /\ callers[h].ph = "settled" /\ ~callers[h].disposed
     /\ callers[h].error # "none"
     /\ callers[g].ph = "settled" /\ callers[g].disposed
     /\ callers[g].on = callers[h].on

====
